---------------------------- MODULE Spec2Model ----------------------------
(***************************************************************************)
(* A model of the JavaScript learning playground: the Logger utility       *)
(* (in-memory list mirrored to the DOM), the page's button handlers of     *)
(* main.js, and the Cache module of the modern-module-pattern example.     *)
(*                                                                         *)
(* Strings are TLA+ strings and are concatenated with \o as the code       *)
(* concatenates them.  The document is a tree of element records; the DOM  *)
(* calls the code uses (getElementById, querySelectorAll, appendChild,     *)
(* remove, textContent) are operators on that tree.  console output and    *)
(* the "updated" animation class are presentation only and not modelled.   *)
(***************************************************************************)
EXTENDS Integers, Sequences, FiniteSets, TLC

VARIABLES
    logs,       \* Logger.logs: the in-memory list of log records
    count,      \* ghost: log calls since construction or the last clear()
    doc,        \* the document: the body element and everything below it
    last,       \* ghost: the operation that acted last, and how it ended
    windowFns,  \* the API functions defined on window
    inflight,   \* async handler invocations suspended at their await
    bgPending,  \* 1 while a callback promisesExample left behind has yet to log
    clicks,     \* ghost: button clicks so far
    cache,      \* the Cache instance's private data
    now,        \* Date.now()
    client,     \* the APIClient instance's private data
    calls,      \* the request() calls on the APIClient and where each stands
    timers,     \* the setTimeout callbacks of the APIClient that have yet to run
    account,    \* the BankAccount instance's private data
    counters,   \* the private data of the Counter instances
    heap,       \* the arrays and history entries the Counters and their caller hold
    held,       \* the array getHistory() returned to the caller, 0 when none
    job         \* the call of a promise utility under way, and its promise

vars == <<logs, count, doc, last, windowFns, inflight, bgPending, clicks, cache, now,
          client, calls, timers, account, counters, heap, held, job>>

loggerVars == <<logs, count, doc>>
pageVars == <<windowFns, inflight, bgPending, clicks>>
cacheVars == <<cache, now>>
clientVars == <<client, calls, timers>>
counterVars == <<counters, heap, held>>
exampleVars == <<clientVars, account, counterVars, job>>

\* an example object no code has constructed
NotConstructed == "not constructed"

\* no promise utility has been called
NoJob == [pc |-> "idle"]

\* the example objects and the promise utilities before any of them is used
IdleExamples ==
    /\ client = NotConstructed
    /\ calls = <<>>
    /\ timers = {}
    /\ account = NotConstructed
    /\ counters = NotConstructed
    /\ heap = <<>>
    /\ held = 0
    /\ job = NoJob

---------------------------------------------------------------------------
(* Bounds of the exploration *)

\* log calls explored since construction or the last clear(), buffer runs
MaxCalls == 102
\* log calls explored since construction or the last clear(), DOM runs
MaxDomCalls == 22
\* maximal blocks of consecutive calls to one section in the DOM runs
MaxDomRuns == 2

---------------------------------------------------------------------------
(* Program constants *)

\* this.maxLogs
maxLogs == 100
\* entries kept in one HTML log container
maxHtmlEntries == 20

Levels == {"info", "warn", "error", "debug"}

\* data = null
NoData == ""

---------------------------------------------------------------------------
(* The DOM *)

Element(tag, id, class, text, kids) ==
    [tag |-> tag, id |-> id, class |-> class, text |-> text, kids |-> kids]

TextNode(text) == Element("#text", "", {}, text, <<>>)

\* null, where a path to an element is expected
NoPath == <<0>>

RECURSIVE FindIn(_, _, _)
\* the path of the first element, in document order, with the given id
\* among kids[i..] and their descendants
FindIn(kids, i, id) ==
    IF i > Len(kids) THEN NoPath
    ELSE LET below == IF kids[i].id = id THEN <<>>
                      ELSE FindIn(kids[i].kids, 1, id)
         IN  IF below # NoPath THEN <<i>> \o below
             ELSE FindIn(kids, i + 1, id)

\* document.getElementById(id): a path from the body, or NoPath
getElementById(d, id) == FindIn(d.kids, 1, id)

RECURSIVE NodeAt(_, _)
NodeAt(node, path) ==
    IF path = <<>> THEN node ELSE NodeAt(node.kids[Head(path)], Tail(path))

RECURSIVE ReplaceAt(_, _, _)
ReplaceAt(node, path, new) ==
    IF path = <<>> THEN new
    ELSE [node EXCEPT !.kids[Head(path)] = ReplaceAt(@, Tail(path), new)]

\* parent.appendChild(child), parent given by its path
appendChild(d, path, child) ==
    LET parent == NodeAt(d, path)
    IN  ReplaceAt(d, path, [parent EXCEPT !.kids = Append(@, child)])

RemoveIndex(s, i) == SubSeq(s, 1, i - 1) \o SubSeq(s, i + 1, Len(s))

\* element.remove(), element given by its (non-empty) path
removeElement(d, path) ==
    LET pp == SubSeq(path, 1, Len(path) - 1)
        parent == NodeAt(d, pp)
    IN  ReplaceAt(d, pp, [parent EXCEPT !.kids = RemoveIndex(@, path[Len(path)])])

RECURSIVE SelectIn(_, _, _)
\* the paths, in document order, of the elements of the given class among
\* kids[i..] and their descendants
SelectIn(kids, i, cls) ==
    IF i > Len(kids) THEN <<>>
    ELSE LET self == IF cls \in kids[i].class THEN << <<i>> >> ELSE <<>>
             sub == SelectIn(kids[i].kids, 1, cls)
         IN  self \o [j \in 1..Len(sub) |-> <<i>> \o sub[j]]
                  \o SelectIn(kids, i + 1, cls)

\* node.querySelectorAll('.' + cls): paths relative to node
querySelectorAll(node, cls) == SelectIn(node.kids, 1, cls)

RECURSIVE TextOf(_, _)
\* the concatenated text of kids[i..] and their descendants
TextOf(kids, i) ==
    IF i > Len(kids) THEN ""
    ELSE (IF kids[i].tag = "#text" THEN kids[i].text ELSE TextOf(kids[i].kids, 1))
         \o TextOf(kids, i + 1)

\* node.textContent (read)
textContent(node) == IF node.tag = "#text" THEN node.text ELSE TextOf(node.kids, 1)

\* element.textContent = content: every child replaced by one text node
setTextContent(d, path, content) ==
    ReplaceAt(d, path, [NodeAt(d, path) EXCEPT !.kids = <<TextNode(content)>>])

\* element.innerHTML = `<h4>${title}</h4>`
Heading(title) == Element("h4", "", {}, "", <<TextNode(title)>>)

RECURSIVE EntriesIn(_, _)
\* the .log-entry elements among kids[i..] and their descendants
EntriesIn(kids, i) ==
    IF i > Len(kids) THEN <<>>
    ELSE (IF "log-entry" \in kids[i].class THEN <<kids[i]>> ELSE <<>>)
         \o EntriesIn(kids[i].kids, 1) \o EntriesIn(kids, i + 1)

\* every .log-entry element of the document, in document order
AllEntries(d) == EntriesIn(d.kids, 1)

\* ghost: the .log-entry elements in the document now
AllEntriesBefore == AllEntries(doc)

---------------------------------------------------------------------------
(* Logger *)

\* level.toUpperCase()
toUpperCase(level) ==
    CASE level = "info" -> "INFO"
      [] level = "warn" -> "WARN"
      [] level = "error" -> "ERROR"
      [] level = "debug" -> "DEBUG"
      [] OTHER -> level

\* The record log() builds.  seq is the ordinal of the call since
\* construction or the last clear(): it stands for the record's identity
\* and for its timestamp, which never decreases from one call to the next.
LogEntry(seq, level, message, section, data) ==
    [seq |-> seq, level |-> level, message |-> message,
     section |-> section, data |-> data]

\* the text logToHTML formats
LogText(e) ==
    "[" \o ToString(e.seq) \o "] [" \o toUpperCase(e.level) \o "] ["
        \o e.section \o "] " \o e.message
        \o (IF e.data # NoData THEN "\nData: " \o e.data ELSE "")

\* the element logToHTML creates; entry is a ghost field, the record the
\* element was created for
LogElement(e) ==
    [tag |-> "div", id |-> "", class |-> {"log-entry", "log-" \o e.level},
     text |-> "", kids |-> <<TextNode(LogText(e))>>, entry |-> e]

\* the container addToHTMLOutput creates for a section
NewLogContainer(section) ==
    Element("div", section \o "-logs", {"log-container"}, "",
            <<Heading("Logs for " \o section)>>)

\* the fallback area addToHTMLOutput creates under the body
NewGeneralLogs ==
    Element("div", "general-logs", {"log-container"}, "", <<Heading("General Logs")>>)

\* addToHTMLOutput, first half: the document with the section's container
\* in it, and the path of the container the entry goes to
LocateContainer(d, section) ==
    LET found == getElementById(d, section \o "-logs")
    IN  IF found # NoPath THEN [doc |-> d, path |-> found]
        ELSE LET sectionOutput == getElementById(d, section \o "-output")
             IN  IF sectionOutput # NoPath
                 THEN [doc |-> appendChild(d, sectionOutput, NewLogContainer(section)),
                       path |-> sectionOutput
                                \o <<Len(NodeAt(d, sectionOutput).kids) + 1>>]
                 ELSE LET g == getElementById(d, "general-logs")
                          d1 == IF g = NoPath THEN appendChild(d, <<>>, NewGeneralLogs)
                                ELSE d
                          gp == IF g = NoPath THEN <<Len(d.kids) + 1>> ELSE g
                      IN  [doc |-> appendChild(d1, gp, NewLogContainer(section)),
                           path |-> gp \o <<Len(NodeAt(d1, gp).kids) + 1>>]

\* variant: the trim removes the last entry instead of entries[0]
TrimNewest(d, containerPath) ==
    LET entries == querySelectorAll(NodeAt(d, containerPath), "log-entry")
    IN  IF Len(entries) > maxHtmlEntries
        THEN removeElement(d, containerPath \o entries[Len(entries)])
        ELSE d

\* addToHTMLOutput, the trim: with more than 20 entries under the
\* container, entries[0] is removed
TrimContainer(d, containerPath) ==
    LET entries == querySelectorAll(NodeAt(d, containerPath), "log-entry")
    IN  IF Len(entries) > maxHtmlEntries
        THEN removeElement(d, containerPath \o entries[1])
        ELSE d

addToHTMLOutput(d, logElement, section) ==
    LET at == LocateContainer(d, section)
    IN  TrimContainer(appendChild(at.doc, at.path, logElement), at.path)

logToHTML(d, logEntry) == addToHTMLOutput(d, LogElement(logEntry), logEntry.section)

\* variant: the overflow check is missing
PushWithoutShift(list, logEntry) == Append(list, logEntry)

\* variant: pop() instead of shift(), the newest record is dropped
PushAndPop(list, logEntry) ==
    LET pushed == Append(list, logEntry)
    IN  IF Len(pushed) > maxLogs THEN SubSeq(pushed, 1, Len(pushed) - 1) ELSE pushed

\* variant: the overflow is handled by dropping two records
PushAndShiftTwo(list, logEntry) ==
    LET pushed == Append(list, logEntry)
    IN  IF Len(pushed) > maxLogs THEN Tail(Tail(pushed)) ELSE pushed

\* this.logs.push(logEntry); if (this.logs.length > this.maxLogs) this.logs.shift()
PushAndShift(list, logEntry) ==
    LET pushed == Append(list, logEntry)
    IN  IF Len(pushed) > maxLogs THEN Tail(pushed) ELSE pushed

\* The state the logger acts on, as one value, so that handlers can make
\* several logger calls in one step.
LoggerState == [logs |-> logs, count |-> count, doc |-> doc]

\* Logger.log
log(st, level, message, section, data) ==
    LET logEntry == LogEntry(st.count + 1, level, message, section, data)
    IN  [logs |-> PushAndShift(st.logs, logEntry),
         count |-> st.count + 1,
         doc |-> logToHTML(st.doc, logEntry)]

info(st, message, section, data) == log(st, "info", message, section, data)
warn(st, message, section, data) == log(st, "warn", message, section, data)
error(st, message, section, data) == log(st, "error", message, section, data)
debug(st, message, section, data) == log(st, "debug", message, section, data)

RECURSIVE StripEntries(_, _)
\* node without the .log-entry elements that lie below a .log-container
StripEntries(node, inContainer) ==
    LET inside == inContainer \/ "log-container" \in node.class
        keep == SelectSeq(node.kids,
                          LAMBDA k : ~(inside /\ "log-entry" \in k.class))
    IN  [node EXCEPT !.kids = [i \in 1..Len(keep) |-> StripEntries(keep[i], inside)]]

\* variant: only the in-memory list is emptied
clearListOnly(st) == [logs |-> <<>>, count |-> 0, doc |-> st.doc]

\* Logger.clear
clear(st) == [logs |-> <<>>, count |-> 0, doc |-> StripEntries(st.doc, FALSE)]

---------------------------------------------------------------------------
(* The page before any script has run *)

\* the sections of the page, in the order of their output boxes
SectionOrder ==
    <<"variables", "functions", "arrays", "async", "dom", "closures",
      "promises", "modern-module-pattern", "system", "general">>

OutputBox(section) == Element("div", section \o "-output", {"output"}, "", <<>>)

\* the body of index.html with an output box for each section of `present`
InitialDocument(present) ==
    LET boxes == SelectSeq(SectionOrder, LAMBDA s : s \in present)
    IN  Element("body", "", {}, "", [i \in 1..Len(boxes) |-> OutputBox(boxes[i])])

\* variant: the API functions are defined only when promisesExample runs
NoWindowFns == {}

\* The API functions promises.js puts on window when the module is loaded
ModuleLoadWindowFns == {"fetchUserData", "fetchMultipleData", "chainAPICalls"}

\* the Cache of the example: new Cache(5, 5000), before any set
NewCache(maxSize, ttl) ==
    [data |-> <<>>, maxSize |-> maxSize, ttl |-> ttl,
     accessCount |-> 0, hitCount |-> 0, missCount |-> 0]

\* what the variables outside the logger hold when nothing has used them
IdleRest ==
    /\ last = [op |-> "load"]
    /\ windowFns = ModuleLoadWindowFns
    /\ inflight = <<>>
    /\ bgPending = 0
    /\ clicks = 0
    /\ cache = NewCache(5, 5000)
    /\ now = 0
    /\ IdleExamples

---------------------------------------------------------------------------
(* Calls of the logger's methods, as steps *)

Commit(st) == logs' = st.logs /\ count' = st.count /\ doc' = st.doc

\* ghost: a log call acted; the record it built and the document it found
Logged(st, via) ==
    [op |-> "log", via |-> via, entry |-> st.logs[Len(st.logs)], docBefore |-> doc]

LogCall(level, message, section, data) ==
    LET st == log(LoggerState, level, message, section, data)
    IN  Commit(st) /\ last' = Logged(st, "log") /\ UNCHANGED <<pageVars, cacheVars, exampleVars>>

InfoCall(message, section, data) ==
    LET st == info(LoggerState, message, section, data)
    IN  Commit(st) /\ last' = Logged(st, "info") /\ UNCHANGED <<pageVars, cacheVars, exampleVars>>

WarnCall(message, section, data) ==
    LET st == warn(LoggerState, message, section, data)
    IN  Commit(st) /\ last' = Logged(st, "warn") /\ UNCHANGED <<pageVars, cacheVars, exampleVars>>

ErrorCall(message, section, data) ==
    LET st == error(LoggerState, message, section, data)
    IN  Commit(st) /\ last' = Logged(st, "error") /\ UNCHANGED <<pageVars, cacheVars, exampleVars>>

DebugCall(message, section, data) ==
    LET st == debug(LoggerState, message, section, data)
    IN  Commit(st) /\ last' = Logged(st, "debug") /\ UNCHANGED <<pageVars, cacheVars, exampleVars>>

ClearCall ==
    /\ Commit(clear(LoggerState))
    /\ last' = [op |-> "clear"]
    /\ UNCHANGED <<pageVars, cacheVars, exampleVars>>

---------------------------------------------------------------------------
(* SpecBuffer: a Logger on a page without output boxes, driven through     *)
(* every logging method, long enough for the in-memory list to overflow.   *)

\* the number of maximal blocks of equal consecutive keys in a sequence
Blocks(keys) ==
    IF keys = <<>> THEN 0
    ELSE 1 + Cardinality({i \in 2..Len(keys) : keys[i] # keys[i - 1]})

SectionKeys == [i \in 1..Len(logs) |-> logs[i].section]

\* the calls between two clear()s are made at one level
BufferCall(level) ==
    /\ count < MaxCalls
    /\ IF logs = <<>> THEN TRUE ELSE logs[Len(logs)].level = level

InitBuffer ==
    /\ logs = <<>>
    /\ count = 0
    /\ doc = InitialDocument({})
    /\ IdleRest

BufferLog == \E level \in Levels : BufferCall(level) /\ LogCall(level, "msg", "system", NoData)
BufferInfo == BufferCall("info") /\ InfoCall("msg", "system", NoData)
BufferWarn == BufferCall("warn") /\ WarnCall("msg", "system", NoData)
BufferError == BufferCall("error") /\ ErrorCall("msg", "system", NoData)
BufferDebug == BufferCall("debug") /\ DebugCall("msg", "system", NoData)
BufferClear == count > 0 /\ ClearCall

NextBuffer ==
    \/ BufferLog
    \/ BufferInfo
    \/ BufferWarn
    \/ BufferError
    \/ BufferDebug
    \/ BufferClear

SpecBuffer == InitBuffer /\ [][NextBuffer]_vars

---------------------------------------------------------------------------
(* SpecDom: a Logger driven with the default section 'general' and with    *)
(* 'system', on pages that have or lack an output box for either, long     *)
(* enough for the HTML containers to be trimmed.                           *)

DomSections == {"general", "system"}

DomCall(section) ==
    /\ count < MaxDomCalls
    /\ Blocks(Append(SectionKeys, section)) <= MaxDomRuns

InitDom ==
    /\ logs = <<>>
    /\ count = 0
    /\ doc \in {InitialDocument(present) : present \in SUBSET DomSections}
    /\ IdleRest

DomInfo == \E section \in DomSections : DomCall(section) /\ InfoCall("msg", section, NoData)
DomClear == count > 0 /\ ClearCall

NextDom ==
    \/ DomInfo
    \/ DomClear

SpecDom == InitDom /\ [][NextDom]_vars

---------------------------------------------------------------------------
(* main.js: the button handlers *)

\* variant: the content is added to the element's text instead of replacing it
updateOutputAppend(d, elementId, content) ==
    LET element == getElementById(d, elementId)
    IN  IF element # NoPath THEN appendChild(d, element, TextNode(content)) ELSE d

\* updateOutput(elementId, content)
updateOutput(d, elementId, content) ==
    LET element == getElementById(d, elementId)
    IN  IF element # NoPath THEN setTextContent(d, element, content) ELSE d

Quote(s) == "\"" \o s \o "\""

\* JSON.stringify({ key: value }, null, 2), value already rendered
JsonOf(key, value) == "{\n  \"" \o key \o "\": " \o value \o "\n}"

ExampleSections ==
    {"variables", "functions", "arrays", "dom", "closures", "promises",
     "modern-module-pattern"}

\* the name the handler's log messages use for its example
Title(section) ==
    CASE section = "variables" -> "Variables"
      [] section = "functions" -> "Functions"
      [] section = "arrays" -> "Arrays"
      [] section = "async" -> "Async"
      [] section = "dom" -> "DOM"
      [] section = "closures" -> "Closures"
      [] section = "promises" -> "Promises"
      [] section = "modern-module-pattern" -> "Modern Module Pattern"

\* the handler window exposes for a synchronous example
HandlerName(section) ==
    IF section = "modern-module-pattern" THEN "runModernModulePatternExample"
    ELSE "run" \o Title(section) \o "Example"

YesNo(b) == IF b THEN "Yes" ELSE "No"

\* The example functions.  Each returns a string; domExample's reports
\* which output boxes it finds; promisesExample logs as it goes and leaves
\* callbacks behind that log later.  The body of each report is cut to its
\* headline.
ExampleResult(section, d) ==
    CASE section = "variables" -> "=== VARIABLES & DATA TYPES ==="
      [] section = "functions" -> "=== FUNCTIONS ==="
      [] section = "arrays" -> "=== ARRAYS & OBJECTS ==="
      [] section = "async" -> "=== ASYNC & PROMISES ==="
      [] section = "dom" ->
            "=== DOM MANIPULATION === Found variables output element: "
            \o YesNo(getElementById(d, "variables-output") # NoPath)
            \o " Found functions output element: "
            \o YesNo(getElementById(d, "functions-output") # NoPath)
      [] section = "closures" ->
            "Closures examples completed! Check the console for detailed output."
      [] section = "promises" ->
            "Promises examples completed! Check the console and HTML logs for detailed output."
      [] section = "modern-module-pattern" ->
            "Modern Module Pattern examples completed! Check the console for detailed output."

\* the logger calls promisesExample makes before it returns
promisesExample(st) ==
    LET s1 == info(st, "Starting JavaScript Promises - Complete Guide", "promises", NoData)
        s2 == info(s1, "Demonstrating basic promise creation", "promises", NoData)
        s3 == info(s2, "Demonstrating promises with real API calls", "promises", NoData)
        s4 == info(s3, "Fetching user data from JSONPlaceholder API", "promises", NoData)
    IN  info(s4, "Promises examples completed successfully", "promises", NoData)

\* the logger state an example function leaves
ExampleEffect(st, section) == IF section = "promises" THEN promisesExample(st) ELSE st

\* window.run<X>Example for the synchronous examples, as a function of the
\* logger state: the state it leaves and the string the example returned
runExample(st, section) ==
    LET s1 == info(st, "Starting " \o Title(section) \o " Example", section, NoData)
        s2 == ExampleEffect(s1, section)
        result == ExampleResult(section, s2.doc)
        s3 == [s2 EXCEPT !.doc = updateOutput(@, section \o "-output", result)]
    IN  [st |-> info(s3, Title(section) \o " Example completed", section,
                     JsonOf("result", Quote(result))),
         result |-> result]

RunExample(section) ==
    LET r == runExample(LoggerState, section)
    IN  /\ Commit(r.st)
        /\ last' = [op |-> "handler", name |-> HandlerName(section),
                    kind |-> "sync", section |-> section, result |-> r.result]
        /\ bgPending' = IF section = "promises" THEN 1 ELSE bgPending
        /\ clicks' = clicks + 1
        /\ UNCHANGED <<windowFns, inflight, cacheVars, exampleVars>>

\* one of the callbacks promisesExample left behind runs and logs
BackgroundLog(level) ==
    LET st == log(LoggerState, level,
                  IF level = "info" THEN "Retry operation succeeded"
                  ELSE "Retry operation failed after all attempts",
                  "promises", JsonOf(IF level = "info" THEN "result" ELSE "error",
                                     Quote("Operation")))
    IN  /\ bgPending > 0
        /\ bgPending' = bgPending - 1
        /\ Commit(st)
        /\ last' = [op |-> "callback"]
        /\ UNCHANGED <<windowFns, inflight, clicks, cacheVars, exampleVars>>

\* The asynchronous handlers: the function each awaits, the section and
\* output box it reports to, and the name its messages use.
AsyncHandlers ==
    {"runAsyncExample", "runFetchUserData", "runFetchMultipleData", "runChainAPICalls"}

AwaitedFn(handler) ==
    CASE handler = "runAsyncExample" -> "asyncExample"
      [] handler = "runFetchUserData" -> "fetchUserData"
      [] handler = "runFetchMultipleData" -> "fetchMultipleData"
      [] handler = "runChainAPICalls" -> "chainAPICalls"

HandlerSection(handler) == IF handler = "runAsyncExample" THEN "async" ELSE "promises"

Label(handler) ==
    CASE handler = "runAsyncExample" -> "Async Example"
      [] handler = "runFetchUserData" -> "Fetch User Data"
      [] handler = "runFetchMultipleData" -> "Fetch Multiple Data"
      [] handler = "runChainAPICalls" -> "Chain API Calls"

\* what the awaited function logs when it is called
FnStartMessage(fn) ==
    CASE fn = "fetchUserData" -> "Fetching user data from JSONPlaceholder API"
      [] fn = "fetchMultipleData" -> "Fetching multiple data sources in parallel"
      [] fn = "chainAPICalls" -> "Starting chained API calls"

\* what it logs when it has its data
FnSuccessMessage(fn) ==
    CASE fn = "fetchUserData" -> "User data fetched successfully"
      [] fn = "fetchMultipleData" -> "All parallel API calls completed successfully"
      [] fn = "chainAPICalls" -> "All chained API calls completed successfully"

\* what it logs in its catch, before it throws the error again
FnFailureMessage(fn) ==
    CASE fn = "fetchUserData" -> "Failed to fetch user data"
      [] fn = "fetchMultipleData" -> "One or more parallel API calls failed"
      [] fn = "chainAPICalls" -> "Chained API calls failed"

\* The ways the awaited function can settle: fulfilled; fulfilled with a
\* quote that has no content (fetchMultipleData reads only quote.author);
\* rejected with an Error.  asyncExample catches every rejection it awaits.
Settlements(fn) ==
    CASE fn = "asyncExample" -> {[outcome |-> "fulfilled", message |-> ""]}
      [] fn = "fetchUserData" ->
            {[outcome |-> "fulfilled", message |-> ""],
             [outcome |-> "rejected", message |-> "HTTP error! status: 500"]}
      [] fn = "fetchMultipleData" ->
            {[outcome |-> "fulfilled", message |-> ""],
             [outcome |-> "malformed",
              message |-> "Cannot read properties of undefined (reading 'substring')"],
             [outcome |-> "rejected", message |-> "Failed to fetch"]}
      [] fn = "chainAPICalls" ->
            {[outcome |-> "fulfilled", message |-> ""],
             [outcome |-> "rejected", message |-> "Failed to fetch"]}

\* the text the handler puts in the output box when the await returns
SuccessText(handler) ==
    CASE handler = "runAsyncExample" -> ExampleResult("async", doc)
      [] handler = "runFetchUserData" -> "User Data: Leanne Graham - Sincere@april.biz"
      [] handler = "runFetchMultipleData" ->
            "Multiple Data: Post - title, Cat Fact - fact..., Quote - content..."
      [] handler = "runChainAPICalls" ->
            "Chained API: User - Leanne Graham, Posts - 10, Comments - 5"

NotAvailable(fn) ==
    fn \o " function not available. Please run the Promises Example first."

\* variant: the catch block shows the error first and logs it afterwards,
\* the order the try block uses
CatchBlockLogLast(st, handler, message) ==
    LET s1 == [st EXCEPT !.doc = updateOutput(@, HandlerSection(handler) \o "-output",
                                              "Error: " \o message)]
    IN  [st |-> error(s1, Label(handler) \o " failed", HandlerSection(handler),
                      JsonOf("error", Quote(message))),
         promise |-> "fulfilled"]

\* the handlers' catch block: log the error, show it; the block returns
\* normally, so the handler's promise is fulfilled
CatchBlock(st, handler, message) ==
    LET s1 == error(st, Label(handler) \o " failed", HandlerSection(handler),
                    JsonOf("error", Quote(message)))
    IN  [st |-> [s1 EXCEPT !.doc = updateOutput(@, HandlerSection(handler) \o "-output",
                                                "Error: " \o message)],
         promise |-> "fulfilled"]

\* the rest of the try block after the await has returned a value
AfterAwait(st, handler, text) ==
    LET s1 == [st EXCEPT !.doc = updateOutput(@, HandlerSection(handler) \o "-output", text)]
    IN  [st |-> info(s1, Label(handler) \o " completed", HandlerSection(handler),
                     JsonOf("result", Quote(text))),
         promise |-> "fulfilled"]

\* no promise reaction is waiting to run: the browser is between tasks
BetweenTasks == \A i \in 1..Len(inflight) : inflight[i].stage = "awaiting"

Awaiting(handler) == [handler |-> handler, stage |-> "awaiting", outcome |-> "", message |-> ""]

\* typeof window[fn] === "function"
IsFunction(fn) == fn \in windowFns

\* a click on an asynchronous handler's button: the handler up to its await,
\* or to its end when the function it needs is missing
StartHandler(handler) ==
    LET fn == AwaitedFn(handler)
        s1 == info(LoggerState, "Starting " \o Label(handler), HandlerSection(handler), NoData)
    IN  /\ clicks' = clicks + 1
        /\ IF handler = "runAsyncExample"
           THEN /\ Commit(s1)
                /\ inflight' = Append(inflight, Awaiting(handler))
                /\ last' = [op |-> "await", name |-> handler]
           ELSE IF ~IsFunction(fn)
           THEN LET c == CatchBlock(s1, handler, NotAvailable(fn))
                IN  /\ Commit(c.st)
                    /\ inflight' = inflight
                    /\ last' = [op |-> "handler", name |-> handler, kind |-> "async",
                                section |-> HandlerSection(handler),
                                path |-> "notAvailable", message |-> NotAvailable(fn),
                                promise |-> c.promise]
           ELSE /\ Commit(info(s1, FnStartMessage(fn), "promises", NoData))
                /\ inflight' = Append(inflight, Awaiting(handler))
                /\ last' = [op |-> "await", name |-> handler]
        /\ UNCHANGED <<windowFns, bgPending, cacheVars, exampleVars>>

\* the awaited function settles: it logs its own success or failure and
\* its promise is fulfilled or rejected
FnSettles(i, s) ==
    LET fn == AwaitedFn(inflight[i].handler)
        st == IF fn = "asyncExample" THEN LoggerState
              ELSE IF s.outcome = "rejected"
              THEN error(LoggerState, FnFailureMessage(fn), "promises",
                         JsonOf("error", Quote(s.message)))
              ELSE info(LoggerState, FnSuccessMessage(fn), "promises",
                        JsonOf("data", Quote(fn)))
    IN  /\ inflight[i].stage = "awaiting"
        /\ s \in Settlements(fn)
        /\ Commit(st)
        /\ inflight' = [inflight EXCEPT ![i] = [@ EXCEPT !.stage = "settled",
                                                         !.outcome = s.outcome,
                                                         !.message = s.message]]
        /\ last' = [op |-> "settle", name |-> fn]
        /\ UNCHANGED <<windowFns, bgPending, clicks, cacheVars, exampleVars>>

\* the handler resumes after its await and runs to its end
ResumeHandler(i) ==
    LET h == inflight[i]
        r == IF h.outcome = "fulfilled"
             THEN AfterAwait(LoggerState, h.handler, SuccessText(h.handler))
             ELSE CatchBlock(LoggerState, h.handler, h.message)
    IN  /\ h.stage = "settled"
        /\ Commit(r.st)
        /\ inflight' = RemoveIndex(inflight, i)
        /\ last' = [op |-> "handler", name |-> h.handler, kind |-> "async",
                    section |-> HandlerSection(h.handler),
                    path |-> h.outcome, message |-> h.message, promise |-> r.promise]
        /\ UNCHANGED <<windowFns, bgPending, clicks, cacheVars, exampleVars>>

\* window.clearAllLogs
clearAllLogs(st) == info(clear(st), "All logs cleared", "system", NoData)

ClearAllLogs ==
    /\ Commit(clearAllLogs(LoggerState))
    /\ last' = [op |-> "handler", name |-> "clearAllLogs", kind |-> "control",
                cleared |-> Len(AllEntriesBefore)]
    /\ clicks' = clicks + 1
    /\ UNCHANGED <<windowFns, inflight, bgPending, cacheVars, exampleVars>>

\* window.exportAllLogs: the download link is added to the body and removed
\* again; what stays is the log record with the number of records exported
exportAllLogs(st) ==
    info(st, "Logs exported", "system", JsonOf("logCount", ToString(Len(st.logs))))

ExportAllLogs ==
    /\ Commit(exportAllLogs(LoggerState))
    /\ last' = [op |-> "handler", name |-> "exportAllLogs", kind |-> "control"]
    /\ clicks' = clicks + 1
    /\ UNCHANGED <<windowFns, inflight, bgPending, cacheVars, exampleVars>>

\* logger.clear() called on the logger that logger.js puts on window
WindowLoggerClear ==
    /\ Commit(clear(LoggerState))
    /\ last' = [op |-> "clear", cleared |-> Len(AllEntriesBefore)]
    /\ clicks' = clicks + 1
    /\ UNCHANGED <<windowFns, inflight, bgPending, cacheVars, exampleVars>>

---------------------------------------------------------------------------
(* SpecPage: the loaded page and its buttons.  Every output box is there,  *)
(* or the box of one section is missing.                                   *)

\* button clicks explored
MaxClicks == 2

HandlerSections == ExampleSections \cup {"async"}

\* the sections whose output box the page may lack
MayLackBox == {"promises"}

\* module evaluation of main.js: the logger's first record
PageLoad(d) == info([logs |-> <<>>, count |-> 0, doc |-> d],
                    "JavaScript Learning Playground initialized", "system", NoData)

InitPage ==
    /\ \E present \in {HandlerSections} \cup {HandlerSections \ {s} : s \in MayLackBox} :
            LET st == PageLoad(InitialDocument(present))
            IN  logs = st.logs /\ count = st.count /\ doc = st.doc
    /\ IdleRest

Click == clicks < MaxClicks /\ BetweenTasks

\* logger.clear() through window.logger, from the console
ConsoleClear == Click /\ WindowLoggerClear

\* the operation an awaiting handler called settles
Settle ==
    /\ BetweenTasks
    /\ \E i \in 1..Len(inflight) :
          \E s \in Settlements(AwaitedFn(inflight[i].handler)) : FnSettles(i, s)
\* a handler whose await has settled runs to its end
Resume == \E i \in 1..Len(inflight) : ResumeHandler(i)
\* a callback promisesExample left behind logs
Background == BetweenTasks /\ \E level \in {"info", "error"} : BackgroundLog(level)

\* a button's onclick handler runs, an awaited operation settles, a
\* suspended handler resumes, or a callback of promisesExample logs
NextPage ==
    \/ \E section \in ExampleSections : Click /\ RunExample(section)
    \/ \E handler \in AsyncHandlers : Click /\ StartHandler(handler)
    \/ Click /\ ClearAllLogs
    \/ Click /\ ExportAllLogs
    \/ ConsoleClear
    \/ Settle
    \/ Resume
    \/ Background

SpecPage == InitPage /\ [][NextPage]_vars

---------------------------------------------------------------------------
(* Reading the document *)

\* the .log-entry elements below the element with the given id, in
\* document order; none when there is no such element
EntriesOf(d, id) ==
    LET c == getElementById(d, id)
    IN  IF c = NoPath THEN <<>> ELSE EntriesIn(NodeAt(d, c).kids, 1)

Occurrences(s, x) == Cardinality({i \in 1..Len(s) : s[i] = x})

Min(a, b) == IF a <= b THEN a ELSE b

---------------------------------------------------------------------------
(* Claims about the in-memory list *)

\* C1: after any sequence of log/info/warn/error/debug and clear calls the
\* in-memory list holds at most maxLogs (100) records.
C1_LogsWithinMaxLogs == Len(logs) <= maxLogs

\* C1 witness: the list is full and a call beyond the capacity has been made.
C1_Witness == Len(logs) = maxLogs /\ count > maxLogs

\* C2: after n log calls since construction or the last clear() the list is
\* exactly the last min(n, 100) records appended, in append order.
C2_LastRecordsInOrder ==
    /\ Len(logs) = Min(count, maxLogs)
    /\ \A i \in 1..Len(logs) : logs[i].seq = count - Len(logs) + i

\* C2 witness: two records have been evicted; the list starts at the third.
C2_Witness == count = maxLogs + 2 /\ logs[1].seq = 3 /\ logs[maxLogs].seq = count

\* a step that appends one record and removes at most the oldest one
AppendEvictStep ==
    /\ logs' # <<>>
    /\ LET kept == SubSeq(logs', 1, Len(logs') - 1)
       IN  kept = logs \/ (logs # <<>> /\ kept = Tail(logs))

\* C3 as stated: every step that changes the in-memory list appends one
\* record and removes at most the single oldest record.
C3_OnlyAppendEvict == [][logs' # logs => AppendEvictStep]_vars

\* C3 amended: every step that changes the in-memory list either appends
\* one record and removes at most the single oldest record, or is clear(),
\* which removes every record.
C3_AppendEvictOrClear ==
    [][logs' # logs => \/ AppendEvictStep
                       \/ (last'.op = "clear" /\ logs' = <<>>)]_vars

\* C3 witness: the call that overflowed the list has just evicted the
\* oldest record.
C3_Witness ==
    /\ last.op = "log"
    /\ count = maxLogs + 1
    /\ logs[1].seq = 2
    /\ logs[maxLogs] = last.entry

---------------------------------------------------------------------------
(* Claims about the HTML mirror *)

\* C4: each log call that appends a record to the in-memory list also
\* appends, in the same call, exactly one .log-entry element for that
\* record to the log container of the record's section.
C4_EntryMirrored ==
    last.op = "log" =>
        LET e == last.entry
            inSection == EntriesOf(doc, e.section \o "-logs")
        IN  /\ logs[Len(logs)] = e
            /\ inSection # <<>>
            /\ inSection[Len(inSection)] = LogElement(e)
            /\ Occurrences(AllEntries(doc), LogElement(e)) = 1

\* C4 witness: a call to the default section has been mirrored after its
\* container was trimmed.
C4_Witness ==
    /\ last.op = "log"
    /\ last.entry.section = "general"
    /\ count > maxHtmlEntries
    /\ Occurrences(AllEntries(doc), LogElement(last.entry)) = 1

\* the section of the record a .log-entry element mirrors
EntrySection(x) == x.entry.section

\* the log call that acted last left the entries of the other sections as
\* they were, and its own section's entries as they were plus the new one,
\* minus at most that section's oldest one
TrimsOwnOldest ==
    last.op = "log" =>
        LET section == last.entry.section
            before == AllEntries(last.docBefore)
            after == AllEntries(doc)
            ownBefore == SelectSeq(before, LAMBDA x : EntrySection(x) = section)
            ownAfter == SelectSeq(after, LAMBDA x : EntrySection(x) = section)
        IN  /\ SelectSeq(after, LAMBDA x : EntrySection(x) # section)
                 = SelectSeq(before, LAMBDA x : EntrySection(x) # section)
            /\ \/ ownAfter = Append(ownBefore, LogElement(last.entry))
               \/ ownBefore # <<>>
                  /\ ownAfter = Append(Tail(ownBefore), LogElement(last.entry))

AtMostMaxHtmlEntries ==
    \A section \in DomSections :
        Len(EntriesOf(doc, section \o "-logs")) <= maxHtmlEntries

\* C9 as stated: each section's log container holds at most 20 .log-entry
\* elements, and the entry trimming removes is the oldest of that section.
C9_HtmlKeepsLast20 == AtMostMaxHtmlEntries /\ TrimsOwnOldest

---------------------------------------------------------------------------
(* Claims about the page's handlers *)

SyncHandlerReturned == last.op = "handler" /\ last.kind = "sync"

\* the output box of the handler that acted last, or NoPath
LastBox == getElementById(doc, last.section \o "-output")

\* C5 as stated: when the output element exists, its text content after a
\* synchronous run handler has returned equals the string the example
\* function returned.
C5_OutputEqualsResult ==
    (SyncHandlerReturned /\ LastBox # NoPath) =>
        textContent(NodeAt(doc, LastBox)) = last.result

\* C5 amended: when the output element exists, after a synchronous run
\* handler has returned the element's first child is a text node holding
\* exactly the string the example function returned, and the element's text
\* content is that string followed by the text of the section's log
\* container, which the handler's closing logger.info call appends inside
\* the element.
C5_OutputStartsWithResult ==
    (SyncHandlerReturned /\ LastBox # NoPath) =>
        LET box == NodeAt(doc, LastBox)
        IN  /\ Len(box.kids) = 2
            /\ box.kids[1] = TextNode(last.result)
            /\ box.kids[2].id = last.section \o "-logs"
            /\ textContent(box) = last.result \o "Logs for " \o last.section
                                    \o LogText(logs[Len(logs)])

\* C5 witness: the DOM example's handler has returned and its box shows the
\* report, which says that the variables box exists.
C5_Witness ==
    /\ SyncHandlerReturned
    /\ last.name = "runDOMExample"
    /\ LastBox # NoPath
    /\ NodeAt(doc, LastBox).kids[1] = TextNode(ExampleResult("dom", doc))
    /\ getElementById(doc, "variables-output") # NoPath

FetchFns == {"fetchUserData", "fetchMultipleData", "chainAPICalls"}

\* what the 'function not available' path would log and show
NotAvailableData == {JsonOf("error", Quote(NotAvailable(fn))) : fn \in FetchFns}
NotAvailableText == {"Error: " \o NotAvailable(fn) : fn \in FetchFns}

\* C6: in any order of button clicks after page load, whether or not
\* runPromisesExample has run, runFetchUserData, runFetchMultipleData and
\* runChainAPICalls never take the 'function not available' error path.
C6_NeverNotAvailable ==
    /\ (last.op = "handler" /\ last.kind = "async") => last.path # "notAvailable"
    /\ \A i \in 1..Len(logs) : logs[i].data \notin NotAvailableData
    /\ LET box == getElementById(doc, "promises-output")
       IN  box # NoPath => textContent(NodeAt(doc, box)) \notin NotAvailableText

\* C6 witness: runFetchUserData has reached its await on a page where the
\* promises example has not been run.
C6_Witness ==
    /\ last.op = "await"
    /\ last.name = "runFetchUserData"
    /\ \A i \in 1..Len(logs) : logs[i].message # "Starting Promises Example"
    /\ logs[Len(logs)].message = FnStartMessage("fetchUserData")

AsyncHandlerRejected ==
    last.op = "handler" /\ last.kind = "async" /\ last.path = "rejected"

\* C7: if the operation an asynchronous handler awaits rejects with error e,
\* the handler appends an error-level log record for its section, sets the
\* output element's text to 'Error: ' followed by e.message, and the
\* handler's own promise fulfils.
C7_RejectionHandled ==
    AsyncHandlerRejected =>
        /\ logs[Len(logs)].level = "error"
        /\ logs[Len(logs)].section = last.section
        /\ logs[Len(logs)].message = Label(last.name) \o " failed"
        /\ logs[Len(logs)].data = JsonOf("error", Quote(last.message))
        /\ LastBox # NoPath =>
               textContent(NodeAt(doc, LastBox)) = "Error: " \o last.message
        /\ last.promise = "fulfilled"

\* C7 witness: a fetch handler's await was rejected and its box shows the error.
C7_Witness ==
    /\ AsyncHandlerRejected
    /\ last.name = "runFetchMultipleData"
    /\ LastBox # NoPath
    /\ textContent(NodeAt(doc, LastBox)) = "Error: Failed to fetch"

\* C8: immediately after logger.clear() the in-memory list is empty and no
\* .log-entry element remains in the document; immediately after
\* window.clearAllLogs() the list holds exactly one record ('All logs
\* cleared', section 'system') and the document shows exactly one entry.
C8_ClearClearsAll ==
    /\ last.op = "clear" => logs = <<>> /\ AllEntries(doc) = <<>>
    /\ (last.op = "handler" /\ last.name = "clearAllLogs") =>
           /\ Len(logs) = 1
           /\ logs[1].message = "All logs cleared"
           /\ logs[1].section = "system"
           /\ AllEntries(doc) = <<LogElement(logs[1])>>

\* C8 witness: clearAllLogs has run on a document that showed entries in
\* more than one place.
C8_Witness ==
    /\ last.op = "handler"
    /\ last.name = "clearAllLogs"
    /\ last.cleared >= 2
    /\ Len(logs) = 1

---------------------------------------------------------------------------
(* The Cache module of the modern-module-pattern example.  data is the Map *)
(* of the instance, kept as the sequence of its entries in insertion      *)
(* order; time is counted in ticks of Date.now().                          *)

\* largest maxSize a Cache is constructed with
MaxSize == 2
\* largest ttl a Cache is constructed with, in ticks
MaxTtl == 1
\* the clock stops ticking here
MaxTime == 2
\* get calls explored since construction or the last clear()
MaxAccess == 1

Keys == {"user:1", "user:2", "item:1"}
Values == {"value1"}
null == "null"
undefined == "undefined"

\* the position of key in the Map, 0 when it is not stored
IndexOf(data, key) ==
    IF \E i \in 1..Len(data) : data[i].key = key
    THEN CHOOSE i \in 1..Len(data) : data[i].key = key
    ELSE 0

\* Map.prototype.has
MapHas(data, key) == IndexOf(data, key) # 0

\* Map.prototype.get
MapGet(data, key) == data[IndexOf(data, key)]

\* Map.prototype.delete
MapDelete(data, key) == SelectSeq(data, LAMBDA e : e.key # key)

\* Map.prototype.set: a stored key keeps its place, a new one goes last
MapSet(data, key, entry) ==
    IF MapHas(data, key)
    THEN [data EXCEPT ![IndexOf(data, key)] = [key |-> key] @@ entry]
    ELSE Append(data, [key |-> key] @@ entry)

\* data.keys().next().value
FirstKey(data) == IF Len(data) > 0 THEN data[1].key ELSE undefined

\* Cache.prototype.set at time t
Cache_set(c, key, value, t) ==
    LET d1 == IF Len(c.data) >= c.maxSize /\ ~MapHas(c.data, key)
              THEN MapDelete(c.data, FirstKey(c.data))
              ELSE c.data
    IN  [c EXCEPT !.data = MapSet(d1, key, [value |-> value, timestamp |-> t,
                                            accessCount |-> 0])]

\* variant: get answers null for an expired entry and leaves it stored
Cache_getKeepsExpired(c, key, t) ==
    LET c1 == [c EXCEPT !.accessCount = @ + 1]
    IN  IF ~MapHas(c1.data, key)
        THEN [cache |-> [c1 EXCEPT !.missCount = @ + 1], result |-> null]
        ELSE LET entry == MapGet(c1.data, key)
                 age == t - entry.timestamp
             IN  IF age > c1.ttl
                 THEN [cache |-> [c1 EXCEPT !.missCount = @ + 1], result |-> null]
                 ELSE [cache |-> [c1 EXCEPT !.data[IndexOf(c1.data, key)].accessCount = @ + 1,
                                            !.hitCount = @ + 1],
                       result |-> entry.value]

\* Cache.prototype.get at time t: the instance afterwards and the value returned
Cache_get(c, key, t) ==
    LET c1 == [c EXCEPT !.accessCount = @ + 1]
    IN  IF ~MapHas(c1.data, key)
        THEN [cache |-> [c1 EXCEPT !.missCount = @ + 1], result |-> null]
        ELSE LET entry == MapGet(c1.data, key)
                 age == t - entry.timestamp
             IN  IF age > c1.ttl
                 THEN [cache |-> [c1 EXCEPT !.data = MapDelete(@, key),
                                            !.missCount = @ + 1],
                       result |-> null]
                 ELSE [cache |-> [c1 EXCEPT !.data[IndexOf(c1.data, key)].accessCount = @ + 1,
                                            !.hitCount = @ + 1],
                       result |-> entry.value]

\* Cache.prototype.has at time t: the instance afterwards and the answer
Cache_has(c, key, t) ==
    IF ~MapHas(c.data, key)
    THEN [cache |-> c, result |-> FALSE]
    ELSE LET entry == MapGet(c.data, key)
             age == t - entry.timestamp
         IN  IF age > c.ttl
             THEN [cache |-> [c EXCEPT !.data = MapDelete(@, key)], result |-> FALSE]
             ELSE [cache |-> c, result |-> TRUE]

\* Cache.prototype.clear
Cache_clear(c) ==
    [c EXCEPT !.data = <<>>, !.hitCount = 0, !.missCount = 0, !.accessCount = 0]

\* Cache.prototype.getStats, without the formatted hitRate
getStats(c) ==
    [size |-> Len(c.data), maxSize |-> c.maxSize, accessCount |-> c.accessCount,
     hitCount |-> c.hitCount, missCount |-> c.missCount]

---------------------------------------------------------------------------
(* SpecCache: one Cache, constructed with any maxSize and ttl within the   *)
(* bounds, used through all its methods while the clock advances.          *)

InitCache ==
    /\ logs = <<>>
    /\ count = 0
    /\ doc = InitialDocument({})
    /\ last = [op |-> "load"]
    /\ windowFns = ModuleLoadWindowFns
    /\ inflight = <<>>
    /\ bgPending = 0
    /\ clicks = 0
    /\ cache \in {NewCache(maxSize, ttl) : maxSize \in 0..MaxSize, ttl \in 0..MaxTtl}
    /\ now = 0
    /\ IdleExamples

CacheSet ==
    \E key \in Keys, value \in Values :
        /\ cache' = Cache_set(cache, key, value, now)
        /\ last' = [op |-> "set", key |-> key, value |-> value]
        /\ UNCHANGED <<loggerVars, pageVars, now, exampleVars>>

\* ghost: the key is stored in c and its entry is older than ttl at time t
Expired(c, key, t) == MapHas(c.data, key) /\ t - MapGet(c.data, key).timestamp > c.ttl

CacheGet ==
    \E key \in Keys :
        LET r == Cache_get(cache, key, now)
        IN  /\ cache.accessCount < MaxAccess
            /\ cache' = r.cache
            /\ last' = [op |-> "get", key |-> key, result |-> r.result,
                        expired |-> Expired(cache, key, now)]
            /\ UNCHANGED <<loggerVars, pageVars, now, exampleVars>>

CacheHas ==
    \E key \in Keys :
        LET r == Cache_has(cache, key, now)
        IN  /\ cache' = r.cache
            /\ last' = [op |-> "has", key |-> key, result |-> r.result,
                        expired |-> Expired(cache, key, now)]
            /\ UNCHANGED <<loggerVars, pageVars, now, exampleVars>>

CacheClear ==
    /\ cache' = Cache_clear(cache)
    /\ last' = [op |-> "cacheClear"]
    /\ UNCHANGED <<loggerVars, pageVars, now, exampleVars>>

CacheGetStats ==
    /\ last' = [op |-> "getStats", result |-> getStats(cache)]
    /\ UNCHANGED <<loggerVars, pageVars, cacheVars, exampleVars>>

\* Date.now() advances
Tick ==
    /\ now < MaxTime
    /\ now' = now + 1
    /\ UNCHANGED <<loggerVars, last, pageVars, cache, exampleVars>>

NextCache ==
    \/ CacheSet
    \/ CacheGet
    \/ CacheHas
    \/ CacheClear
    \/ CacheGetStats
    \/ Tick

SpecCache == InitCache /\ [][NextCache]_vars

---------------------------------------------------------------------------
(* Claims about the Cache *)

\* C10 as stated: for a Cache constructed with any maxSize >= 0, after any
\* sequence of set/get/has/clear calls the number of stored entries
\* (getStats().size) never exceeds maxSize.
C10_SizeWithinMaxSize == getStats(cache).size <= getStats(cache).maxSize

\* a step of set that stores a key the cache did not hold and found it full
SetFindsFull ==
    /\ last'.op = "set"
    /\ cache' # cache
    /\ ~MapHas(cache.data, last'.key)
    /\ Len(cache.data) >= cache.maxSize
    /\ cache.data # <<>>

\* the entries of data whose keys data2 no longer holds
Removed(data, data2) == SelectSeq(data, LAMBDA e : ~MapHas(data2, e.key))

\* C11 as stated: when Cache.set of a key not yet stored finds the cache
\* full, it removes the oldest entry, the stored entry with the smallest
\* timestamp (time of its most recent set), also after an existing key has
\* been overwritten by a later set.
C11_EvictsSmallestTimestamp ==
    [][SetFindsFull =>
          LET gone == Removed(cache.data, cache'.data)
          IN  /\ Len(gone) = 1
              /\ \A i \in 1..Len(cache.data) :
                     gone[1].timestamp <= cache.data[i].timestamp]_vars

\* a step of get or has for key: get counts the access, has changes only
\* the ghost or removes the entry
GetStep == last'.op = "get" /\ cache'.accessCount = cache.accessCount + 1
HasStep == last'.op = "has" /\ now' = now /\ (last' # last \/ cache' # cache)

\* the entry of last'.key is stored now and at most ttl old
Fresh ==
    /\ MapHas(cache.data, last'.key)
    /\ now - MapGet(cache.data, last'.key).timestamp <= cache.ttl

\* C12: Cache.get(key) returns a stored value only if the current time minus
\* the entry's timestamp is at most ttl; for a missing or expired key it
\* returns null and Cache.has returns false, and an expired entry found by
\* get or has is removed from the cache by that call.
C12_GetHonoursTtl ==
    [][/\ GetStep =>
            IF Fresh
            THEN /\ last'.result = MapGet(cache.data, last'.key).value
                 /\ MapHas(cache'.data, last'.key)
            ELSE /\ last'.result = null
                 /\ ~MapHas(cache'.data, last'.key)
       /\ HasStep =>
            IF Fresh
            THEN last'.result = TRUE /\ cache'.data = cache.data
            ELSE last'.result = FALSE /\ ~MapHas(cache'.data, last'.key)]_vars

\* C12 witness: get found an entry older than ttl, answered null and the
\* entry is gone.
C12_Witness ==
    /\ last.op = "get"
    /\ last.expired
    /\ last.result = null
    /\ ~MapHas(cache.data, last.key)

---------------------------------------------------------------------------
(* The APIClient of the modern-module-pattern example.  request() runs     *)
(* without interruption up to each await; between awaits only timers and   *)
(* other calls run.  A timer runs at or after the time it is due.          *)

\* setTimeout(resolve, 100): the polling delay of request and the delay of
\* the simulated response
PollDelay == 100
\* setTimeout(..., 1000): the delay of the counter's decrement
ResetDelay == 1000
\* minRequestInterval is MsPerInterval / rateLimit
MsPerInterval == 1000

\* largest rateLimit an APIClient is constructed with
MaxRateLimit == 2
\* request() calls explored
MaxRequests == 3
\* the clock stops after this many steps of PollDelay
MaxSteps == 12

\* Date.now() when the client is constructed, far from time 0
Epoch == 10 * ResetDelay

\* the endpoints the example requests, in the order of its calls
Endpoint(i) == IF i = 1 THEN "/users" ELSE IF i = 2 THEN "/posts" ELSE "/comments"

\* new APIClient(baseURL, rateLimit); minRequestInterval is kept as the
\* quotient it is computed from
NewClient(baseURL, rateLimit) ==
    [baseURL |-> baseURL, rateLimit |-> rateLimit, requestQueue |-> <<>>,
     requestHistory |-> <<>>, currentRequests |-> 0, lastRequestTime |-> 0]

\* variant: the interval alone decides
canMakeRequestByInterval(c, t) ==
    /\ c.rateLimit > 0
    /\ (t - c.lastRequestTime) * c.rateLimit >= MsPerInterval

\* variant: the counter alone decides
canMakeRequestByCount(c, t) == c.currentRequests < c.rateLimit

\* APIClient.prototype._canMakeRequest at time t:
\* timeSinceLastRequest >= 1000 / rateLimit, which no time satisfies when
\* rateLimit is 0
canMakeRequest(c, t) ==
    /\ c.rateLimit > 0
    /\ (t - c.lastRequestTime) * c.rateLimit >= MsPerInterval
    /\ c.currentRequests < c.rateLimit

\* APIClient.prototype._recordRequest at time t, without its timer
recordRequest(c, endpoint, t) ==
    [c EXCEPT !.currentRequests = @ + 1,
              !.lastRequestTime = t,
              !.requestHistory = Append(@, [endpoint |-> endpoint, timestamp |-> t,
                                            count |-> c.currentRequests + 1])]

\* the callback of _recordRequest's timer
resetCounter(c) ==
    [c EXCEPT !.currentRequests = IF @ - 1 > 0 THEN @ - 1 ELSE 0]

Timer(kind, call, due) == [kind |-> kind, call |-> call, due |-> due]

\* request(), from its loop's test on: the call records its request and
\* awaits the response, or awaits the polling delay
Attempt(i, stood, pendingTimers) ==
    IF canMakeRequest(client, now)
    THEN /\ client' = recordRequest(client, Endpoint(i), now)
         /\ calls' = [stood EXCEPT ![i] = "responding"]
         /\ timers' = pendingTimers
                        \cup {Timer("reset", Len(client.requestHistory) + 1, now + ResetDelay),
                              Timer("response", i, now + PollDelay)}
    ELSE /\ client' = client
         /\ calls' = [stood EXCEPT ![i] = "polling"]
         /\ timers' = pendingTimers \cup {Timer("poll", i, now + PollDelay)}

ClientFrame == UNCHANGED <<loggerVars, last, pageVars, cache, account, counterVars, job>>

\* apiClient.request(endpoint) is called
Request ==
    /\ Len(calls) < MaxRequests
    /\ Attempt(Len(calls) + 1, Append(calls, "called"), timers)
    /\ UNCHANGED now
    /\ ClientFrame

\* a polling delay is over: the call tests again
PollFires ==
    \E t \in timers :
        /\ t.kind = "poll"
        /\ t.due <= now
        /\ Attempt(t.call, calls, timers \ {t})
        /\ UNCHANGED now
        /\ ClientFrame

\* the timer of a recorded request runs
ResetFires ==
    \E t \in timers :
        /\ t.kind = "reset"
        /\ t.due <= now
        /\ client' = resetCounter(client)
        /\ timers' = timers \ {t}
        /\ UNCHANGED <<calls, now>>
        /\ ClientFrame

\* the simulated response arrives: the call's promise is fulfilled
ResponseFires ==
    \E t \in timers :
        /\ t.kind = "response"
        /\ t.due <= now
        /\ calls' = [calls EXCEPT ![t.call] = "fulfilled"]
        /\ timers' = timers \ {t}
        /\ UNCHANGED <<client, now>>
        /\ ClientFrame

\* Date.now() advances
ClientTick ==
    /\ now < Epoch + MaxSteps * PollDelay
    /\ now' = now + PollDelay
    /\ UNCHANGED <<clientVars>>
    /\ ClientFrame

InitClient ==
    /\ logs = <<>>
    /\ count = 0
    /\ doc = InitialDocument({})
    /\ last = [op |-> "load"]
    /\ windowFns = ModuleLoadWindowFns
    /\ inflight = <<>>
    /\ bgPending = 0
    /\ clicks = 0
    /\ cache = NewCache(5, 5000)
    /\ now = Epoch
    /\ client \in {NewClient("https://api.example.com", rateLimit) :
                      rateLimit \in 0..MaxRateLimit}
    /\ calls = <<>>
    /\ timers = {}
    /\ account = NotConstructed
    /\ counters = NotConstructed
    /\ heap = <<>>
    /\ held = 0
    /\ job = NoJob

NextClient ==
    \/ Request
    \/ PollFires
    \/ ResetFires
    \/ ResponseFires
    \/ ClientTick

SpecClient == InitClient /\ [][NextClient]_vars

---------------------------------------------------------------------------
(* Claims about the APIClient *)

\* C13: under any interleaving of concurrent request() calls on one
\* APIClient, with the polling awaits and the decrement timers firing in any
\* order, currentRequests stays within 0..rateLimit in every reachable
\* state; the test of _canMakeRequest and the update of _recordRequest are
\* one step that no other call's step separates.
C13_CurrentRequestsWithinLimit ==
    /\ client.currentRequests \in 0..client.rateLimit
    /\ Len(client.requestHistory) = Cardinality({i \in 1..Len(calls) :
                                                    calls[i] \in {"responding", "fulfilled"}})
    /\ \A i \in 1..Len(client.requestHistory) :
           client.requestHistory[i].count \in 1..client.rateLimit

\* C13 witness: the counter stands at the limit while a call polls and
\* another call's decrement timer is overdue.
C13_Witness ==
    /\ client.rateLimit > 0
    /\ client.currentRequests = client.rateLimit
    /\ \E i \in 1..Len(calls) : calls[i] = "polling"
    /\ \E t \in timers : t.kind = "reset" /\ t.due < now
    /\ (now - client.lastRequestTime) * client.rateLimit >= MsPerInterval

\* C14: any two requests recorded on the same APIClient are at least
\* minRequestInterval = 1000 / rateLimit ms apart: for consecutive entries
\* of requestHistory the later time minus the earlier one is at least
\* minRequestInterval, for any number of concurrent request() calls.
C14_RequestsSpaced ==
    \A i \in 1..(Len(client.requestHistory) - 1) :
        (client.requestHistory[i + 1].timestamp - client.requestHistory[i].timestamp)
            * client.rateLimit >= MsPerInterval

\* C14 witness: three calls were made at once and two of their requests
\* are recorded exactly minRequestInterval apart.
C14_Witness ==
    /\ Len(calls) = 3
    /\ Len(client.requestHistory) >= 2
    /\ client.lastRequestTime = client.requestHistory[Len(client.requestHistory)].timestamp
    /\ (client.requestHistory[2].timestamp - client.requestHistory[1].timestamp)
           * client.rateLimit = MsPerInterval

---------------------------------------------------------------------------
(* The BankAccount of the modern-module-pattern example.  A method call    *)
(* either returns or throws; Threw and Returned carry how it ended.        *)

\* largest amount, initial balance and overdraft limit explored
MaxAmount == 2
\* deposits and withdrawals explored on one account
MaxTransactions == 3

Amounts == -1..MaxAmount

Threw(data, message) == [data |-> data, threw |-> message]
Returned(data) == [data |-> data, threw |-> ""]

\* new BankAccount(accountNumber, initialBalance)
NewAccount(accountNumber, initialBalance) ==
    [accountNumber |-> accountNumber, balance |-> initialBalance,
     transactions |-> <<>>, isActive |-> TRUE, overdraftLimit |-> 0]

\* BankAccount.prototype.deposit
deposit(data, amount) ==
    IF ~data.isActive THEN Threw(data, "Account is inactive")
    ELSE IF amount <= 0 THEN Threw(data, "Deposit amount must be positive")
    ELSE LET balance == data.balance + amount
         IN  Returned([data EXCEPT
                 !.balance = balance,
                 !.transactions = Append(@, [type |-> "deposit", amount |-> amount,
                                             balance |-> balance])])

\* variant: the amount is taken from the balance before the funds are tested
withdrawDebitsFirst(data, amount) ==
    IF ~data.isActive THEN Threw(data, "Account is inactive")
    ELSE IF amount <= 0 THEN Threw(data, "Withdrawal amount must be positive")
    ELSE LET balance == data.balance - amount
         IN  IF balance + data.overdraftLimit < 0
             THEN Threw([data EXCEPT !.balance = balance], "Insufficient funds")
             ELSE Returned([data EXCEPT
                      !.balance = balance,
                      !.transactions = Append(@, [type |-> "withdrawal", amount |-> amount,
                                                  balance |-> balance])])

\* BankAccount.prototype.withdraw
withdraw(data, amount) ==
    IF ~data.isActive THEN Threw(data, "Account is inactive")
    ELSE IF amount <= 0 THEN Threw(data, "Withdrawal amount must be positive")
    ELSE LET availableBalance == data.balance + data.overdraftLimit
         IN  IF amount > availableBalance THEN Threw(data, "Insufficient funds")
             ELSE LET balance == data.balance - amount
                  IN  Returned([data EXCEPT
                          !.balance = balance,
                          !.transactions = Append(@, [type |-> "withdrawal",
                                                      amount |-> amount,
                                                      balance |-> balance])])

\* BankAccount.prototype.setOverdraftLimit
setOverdraftLimit(data, limit) == [data EXCEPT !.overdraftLimit = limit]

\* BankAccount.prototype.deactivate
deactivate(data) == [data EXCEPT !.isActive = FALSE]

\* BankAccount.prototype.activate
activate(data) == [data EXCEPT !.isActive = TRUE]

---------------------------------------------------------------------------
(* SpecAccount: one BankAccount, used through all its mutating methods     *)
(* with amounts that are negative, zero and positive.                      *)

AccountFrame == UNCHANGED <<loggerVars, pageVars, cacheVars, clientVars, counterVars, job>>

InitAccount ==
    /\ logs = <<>>
    /\ count = 0
    /\ doc = InitialDocument({})
    /\ last = [op |-> "load"]
    /\ windowFns = ModuleLoadWindowFns
    /\ inflight = <<>>
    /\ bgPending = 0
    /\ clicks = 0
    /\ cache = NewCache(5, 5000)
    /\ now = 0
    /\ client = NotConstructed
    /\ calls = <<>>
    /\ timers = {}
    /\ account \in {NewAccount("ACC-001", initialBalance) : initialBalance \in 0..MaxAmount}
    /\ counters = NotConstructed
    /\ heap = <<>>
    /\ held = 0
    /\ job = NoJob

\* a deposit or withdrawal is explored while the history is short
AccountCall == Len(account.transactions) < MaxTransactions

Deposit ==
    \E amount \in Amounts :
        LET r == deposit(account, amount)
        IN  /\ AccountCall
            /\ account' = r.data
            /\ last' = [op |-> "deposit", amount |-> amount, threw |-> r.threw]
            /\ AccountFrame

Withdraw ==
    \E amount \in Amounts :
        LET r == withdraw(account, amount)
        IN  /\ AccountCall
            /\ account' = r.data
            /\ last' = [op |-> "withdraw", amount |-> amount, threw |-> r.threw]
            /\ AccountFrame

SetOverdraftLimit ==
    \E limit \in Amounts :
        /\ account' = setOverdraftLimit(account, limit)
        /\ last' = [op |-> "setOverdraftLimit"]
        /\ AccountFrame

Deactivate ==
    /\ account' = deactivate(account)
    /\ last' = [op |-> "deactivate"]
    /\ AccountFrame

Activate ==
    /\ account' = activate(account)
    /\ last' = [op |-> "activate"]
    /\ AccountFrame

NextAccount ==
    \/ Deposit
    \/ Withdraw
    \/ SetOverdraftLimit
    \/ Deactivate
    \/ Activate

SpecAccount == InitAccount /\ [][NextAccount]_vars

---------------------------------------------------------------------------
(* Claims about the BankAccount *)

\* a step of deposit or withdraw; a call that repeats the last one and
\* throws again leaves every variable as it is
DepositStep == last'.op = "deposit" /\ (last' # last \/ account' # account)
WithdrawStep == last'.op = "withdraw" /\ (last' # last \/ account' # account)

\* C15: BankAccount.deposit throws when the account is inactive or
\* amount <= 0, and BankAccount.withdraw throws when the account is
\* inactive, amount <= 0, or amount > balance + overdraftLimit; a call that
\* throws leaves balance and the transaction history unchanged.
C15_ThrowsAndLeavesUnchanged ==
    [][/\ DepositStep =>
            /\ (~account.isActive \/ last'.amount <= 0) => last'.threw # ""
            /\ last'.threw # "" =>
                   /\ account'.balance = account.balance
                   /\ account'.transactions = account.transactions
       /\ WithdrawStep =>
            /\ (\/ ~account.isActive
                \/ last'.amount <= 0
                \/ last'.amount > account.balance + account.overdraftLimit)
                   => last'.threw # ""
            /\ last'.threw # "" =>
                   /\ account'.balance = account.balance
                   /\ account'.transactions = account.transactions]_vars

\* C15 witness: a withdrawal beyond balance plus overdraft limit has thrown
\* on an active account that has a history and a debt within its limit.
C15_Witness ==
    /\ last.op = "withdraw"
    /\ last.threw = "Insufficient funds"
    /\ last.amount > 0
    /\ account.isActive
    /\ account.overdraftLimit > 0
    /\ account.balance < 0
    /\ Len(account.transactions) > 0

---------------------------------------------------------------------------
(* The Counter of the modern-module-pattern example.  Arrays and history   *)
(* entries are objects: the heap holds them, a reference is an index into  *)
(* the heap, and 0 is the null reference.  The private data of a Counter   *)
(* holds a reference to its history array.                                 *)

\* entries one Counter's history holds at most
MaxHistory == 1
\* objects allocated at most
MaxObjects == 5

CounterIds == {1, 2}

ArrayObject(items) == [kind |-> "array", items |-> items]

\* new Counter(initialValue), its history array at the reference given
NewCounter(initialValue, history) == [count |-> initialValue, history |-> history]

\* data.history.push(entry) for the Counter id: the entry is a new object
PushHistory(cs, hp, id, entry) ==
    LET hp1 == Append(hp, entry)
    IN  [hp1 EXCEPT ![cs[id].history].items = Append(@, Len(hp1))]

\* Counter.prototype.increment
increment(cs, hp, id, amount) ==
    [counters |-> [cs EXCEPT ![id].count = @ + amount],
     heap |-> PushHistory(cs, hp, id, [kind |-> "entry", action |-> "increment",
                                       amount |-> amount])]

\* Counter.prototype.decrement
decrement(cs, hp, id, amount) ==
    [counters |-> [cs EXCEPT ![id].count = @ - amount],
     heap |-> PushHistory(cs, hp, id, [kind |-> "entry", action |-> "decrement",
                                       amount |-> amount])]

\* Counter.prototype.reset
reset(cs, hp, id) ==
    [counters |-> [cs EXCEPT ![id].count = 0],
     heap |-> PushHistory(cs, hp, id, [kind |-> "entry", action |-> "reset"])]

\* Counter.prototype.getValue
getValue(cs, id) == cs[id].count

\* variant: getHistory hands out the history array itself
getHistoryItself(cs, hp, id) == [heap |-> hp, result |-> cs[id].history]

\* Counter.prototype.getHistory: [...history] is a new array holding the
\* same entries
getHistory(cs, hp, id) ==
    [heap |-> Append(hp, ArrayObject(hp[cs[id].history].items)),
     result |-> Len(hp) + 1]

\* what the caller reads in the array at reference r: the entries it holds
Contents(hp, r) ==
    [i \in 1..Len(hp[r].items) |->
        IF hp[r].items[i] = 0 THEN null ELSE hp[hp[r].items[i]]]

\* what a call of getHistory() on the Counter id would show now
HistoryShown(cs, hp, id) == Contents(hp, cs[id].history)

---------------------------------------------------------------------------
(* SpecCounters: counter1 and counter2 of the example, and a caller that   *)
(* changes the array getHistory() gave it, or an entry in it.              *)

CounterFrame == UNCHANGED <<loggerVars, pageVars, cacheVars, clientVars, account, job>>

InitCounters ==
    /\ logs = <<>>
    /\ count = 0
    /\ doc = InitialDocument({})
    /\ last = [op |-> "load"]
    /\ windowFns = ModuleLoadWindowFns
    /\ inflight = <<>>
    /\ bgPending = 0
    /\ clicks = 0
    /\ cache = NewCache(5, 5000)
    /\ now = 0
    /\ client = NotConstructed
    /\ calls = <<>>
    /\ timers = {}
    /\ account = NotConstructed
    /\ counters = [id \in CounterIds |-> NewCounter(IF id = 1 THEN 10 ELSE 5, id)]
    /\ heap = <<ArrayObject(<<>>), ArrayObject(<<>>)>>
    /\ held = 0
    /\ job = NoJob

\* a method that adds to the history of id is explored while there is room
CounterCall(id) ==
    /\ Len(heap) < MaxObjects
    /\ Len(heap[counters[id].history].items) < MaxHistory

CounterStep(id, op, r) ==
    /\ CounterCall(id)
    /\ counters' = r.counters
    /\ heap' = r.heap
    /\ last' = [op |-> op, id |-> id]
    /\ UNCHANGED held
    /\ CounterFrame

Increment == \E id \in CounterIds, amount \in 1..2 :
                 CounterStep(id, "increment", increment(counters, heap, id, amount))
Decrement == \E id \in CounterIds, amount \in 1..2 :
                 CounterStep(id, "decrement", decrement(counters, heap, id, amount))
Reset == \E id \in CounterIds : CounterStep(id, "reset", reset(counters, heap, id))

\* the caller calls getHistory() and keeps the array it returns
GetHistory ==
    \E id \in CounterIds :
        LET r == getHistory(counters, heap, id)
        IN  /\ Len(heap) < MaxObjects
            /\ heap' = r.heap
            /\ held' = r.result
            /\ last' = [op |-> "getHistory", id |-> id]
            /\ UNCHANGED counters
            /\ CounterFrame

\* the caller changes the array it holds: push(null), pop(), or length = 0
MutateArray ==
    /\ held # 0
    /\ \E items \in {Append(heap[held].items, 0),
                     SubSeq(heap[held].items, 1, Len(heap[held].items) - 1),
                     <<>>} :
           /\ items # heap[held].items
           /\ Len(items) <= MaxHistory
           /\ heap' = [heap EXCEPT ![held].items = items]
    /\ last' = [op |-> "mutateArray", id |-> last.id]
    /\ UNCHANGED <<counters, held>>
    /\ CounterFrame

\* the caller changes a field of an entry it finds in the array it holds
MutateEntry ==
    /\ held # 0
    /\ \E i \in 1..Len(heap[held].items) :
           LET r == heap[held].items[i]
           IN  /\ r # 0
               /\ heap[r].action # "changed"
               /\ heap' = [heap EXCEPT ![r].action = "changed"]
    /\ last' = [op |-> "mutateEntry", id |-> last.id]
    /\ UNCHANGED <<counters, held>>
    /\ CounterFrame

NextCounters ==
    \/ Increment
    \/ Decrement
    \/ Reset
    \/ GetHistory
    \/ MutateArray
    \/ MutateEntry

SpecCounters == InitCounters /\ [][NextCounters]_vars

---------------------------------------------------------------------------
(* Claims about the Counter *)

\* C16: private data is stored per instance: no sequence of increment,
\* decrement and reset calls on one Counter changes getValue() or
\* getHistory() of another instance, and mutating the array returned by
\* getHistory() does not change what later getHistory() calls return.
C16_InstancesAndCopiesApart ==
    [][/\ (last'.op \in {"increment", "decrement", "reset"} /\ heap' # heap) =>
              \A other \in CounterIds \ {last'.id} :
                  /\ getValue(counters', other) = getValue(counters, other)
                  /\ HistoryShown(counters', heap', other)
                         = HistoryShown(counters, heap, other)
       /\ (last'.op = "mutateArray" /\ heap' # heap) =>
              \A id \in CounterIds :
                  /\ getValue(counters', id) = getValue(counters, id)
                  /\ HistoryShown(counters', heap', id)
                         = HistoryShown(counters, heap, id)]_vars

\* C16 witness: both Counters have a history, and the caller has emptied
\* the array it got from a Counter whose getHistory() still shows entries.
C16_Witness ==
    /\ last.op = "mutateArray"
    /\ held # 0
    /\ heap[held].items = <<>>
    /\ \A id \in CounterIds : Len(HistoryShown(counters, heap, id)) > 0
    /\ getValue(counters, 1) # 10
    /\ getValue(counters, 2) # 5

---------------------------------------------------------------------------
(* The promise utilities of promisesExample: retry and fetchWithRetry.     *)
(* job is the call under way: its arguments, the loop variable, where the  *)
(* async function is suspended (pc), the promise it returned, and as ghost *)
(* fields the invocations of fn (or fetches) so far and when each settled. *)

\* maxAttempts and maxRetries range over 0..MaxAttempts
MaxAttempts == 2
\* delayMs and delay range over 0..MaxDelayMs
MaxDelayMs == 1
\* the clock stops here
MaxClock == 3

Pending == [state |-> "pending"]
Fulfilled(value) == [state |-> "fulfilled", value |-> value]
Rejected(reason) == [state |-> "rejected", reason |-> reason]

\* JSON.stringify(data, null, 2) of an object with these keys and values
RECURSIVE JsonFields(_, _)
JsonFields(pairs, i) ==
    IF i > Len(pairs) THEN ""
    ELSE (IF i > 1 THEN ",\n" ELSE "") \o "  \"" \o pairs[i][1] \o "\": "
             \o pairs[i][2] \o JsonFields(pairs, i + 1)
JsonObject(pairs) ==
    IF pairs = <<>> THEN "{}" ELSE "{\n" \o JsonFields(pairs, 1) \o "\n}"

\* ghost: fn is invoked (or a fetch issued) at time t
Invoked(j, t) ==
    [j EXCEPT !.runs = Append(@, [startedAt |-> t, settledAt |-> -1,
                                  outcome |-> Pending])]

\* ghost: the invocation under way ended at time t
Ended(j, outcome, t) ==
    [j EXCEPT !.runs[Len(j.runs)] = [@ EXCEPT !.settledAt = t, !.outcome = outcome]]

\* the async function returns or throws at time t: its promise settles
Settled(j, outcome, t) ==
    [j EXCEPT !.pc = "returned", !.promise = outcome, !.settledAt = t]

\* the callbacks of the example's retry(flakyOperation, 3, 200) call
retryCallbacks(st, outcome) ==
    IF outcome.state = "fulfilled"
    THEN info(st, "Retry operation succeeded", "promises",
              JsonObject(IF outcome.value = undefined THEN <<>>
                         ELSE <<<<"result", Quote(outcome.value)>>>>))
    ELSE error(st, "Retry operation failed after all attempts", "promises",
               JsonObject(<<<<"error", Quote(outcome.reason)>>>>))

\* retry, from the test of its for loop to the await of fn(), or to the end
\* of the function when the test fails
retryLoop(j, st, t) ==
    IF j.attempt <= j.maxAttempts
    THEN [job |-> [Invoked(j, t) EXCEPT !.pc = "fn"], st |-> st]
    ELSE [job |-> Settled(j, Fulfilled(undefined), t),
          st |-> retryCallbacks(st, Fulfilled(undefined))]

\* retry(fn, maxAttempts, delayMs) called at time t
retry(maxAttempts, delayMs, st, t) ==
    retryLoop([util |-> "retry", maxAttempts |-> maxAttempts, delayMs |-> delayMs,
               attempt |-> 1, pc |-> "called", due |-> 0, promise |-> Pending,
               settledAt |-> -1, runs |-> <<>>], st, t)

\* variant: the catch of retry waits whichever attempt failed
retryCatchThenWait(j, st, reason, t) ==
    [job |-> [Ended(j, Rejected(reason), t) EXCEPT !.pc = "delay",
                                                   !.due = t + j.delayMs],
     st |-> st]

\* retry: fn() rejected at time t, the catch block
retryCatch(j, st, reason, t) ==
    IF j.attempt = j.maxAttempts
    THEN [job |-> Settled(Ended(j, Rejected(reason), t), Rejected(reason), t),
          st |-> retryCallbacks(st, Rejected(reason))]
    ELSE [job |-> [Ended(j, Rejected(reason), t) EXCEPT !.pc = "delay",
                                                        !.due = t + j.delayMs],
          st |-> st]

\* retry: fn() fulfilled at time t, return await fn()
retryReturn(j, st, value, t) ==
    [job |-> Settled(Ended(j, Fulfilled(value), t), Fulfilled(value), t),
     st |-> retryCallbacks(st, Fulfilled(value))]

\* the url of the example's fetchWithRetry call
RetryUrl == "https://httpbin.org/status/500"

\* fetchWithRetry, from the test of its for loop to the await of fetch(url)
fetchRetryLoop(j, st, t) ==
    IF j.attempt <= j.maxAttempts
    THEN [job |-> [Invoked(j, t) EXCEPT !.pc = "fetch"],
          st |-> info(st, "API call attempt " \o ToString(j.attempt) \o "/"
                              \o ToString(j.maxAttempts), "promises",
                      JsonObject(<<<<"url", Quote(RetryUrl)>>>>))]
    ELSE [job |-> Settled(j, Fulfilled(undefined), t), st |-> st]

\* fetchWithRetry(url, maxRetries, delay) called at time t
fetchWithRetry(maxRetries, delay, st, t) ==
    fetchRetryLoop([util |-> "fetchWithRetry", maxAttempts |-> maxRetries,
                    delayMs |-> delay, attempt |-> 1, pc |-> "called", due |-> 0,
                    promise |-> Pending, settledAt |-> -1, runs |-> <<>>], st, t)

\* fetchWithRetry: the catch block, entered with error.message at time t
fetchRetryCatch(j, st, message, t) ==
    LET s1 == warn(st, "API call attempt " \o ToString(j.attempt) \o " failed",
                   "promises",
                   JsonObject(<<<<"url", Quote(RetryUrl)>>,
                                <<"attempt", ToString(j.attempt)>>,
                                <<"error", Quote(message)>>>>))
        thrown == "Failed after " \o ToString(j.maxAttempts) \o " attempts: "
                      \o message
    IN  IF j.attempt = j.maxAttempts
        THEN [job |-> Settled(Ended(j, Rejected(message), t), Rejected(thrown), t),
              st |-> error(s1, "All retry attempts failed", "promises",
                           JsonObject(<<<<"url", Quote(RetryUrl)>>,
                                        <<"maxRetries", ToString(j.maxAttempts)>>,
                                        <<"finalError", Quote(message)>>>>))]
        ELSE [job |-> [Ended(j, Rejected(message), t)
                          EXCEPT !.pc = "delay", !.due = t + j.delayMs * j.attempt],
              st |-> s1]

\* fetchWithRetry: fetch(url) settled at time t
fetchRetryResponse(j, st, response, t) ==
    IF response.state = "rejected" THEN fetchRetryCatch(j, st, response.reason, t)
    ELSE IF ~response.value.ok
         THEN fetchRetryCatch(j, st, "HTTP error! status: "
                                         \o ToString(response.value.status), t)
         ELSE [job |-> [j EXCEPT !.pc = "json"], st |-> st]

\* fetchWithRetry: response.json() settled at time t
fetchRetryData(j, st, parsed, t) ==
    IF parsed.state = "rejected" THEN fetchRetryCatch(j, st, parsed.reason, t)
    ELSE [job |-> Settled(Ended(j, Fulfilled(parsed.value), t),
                          Fulfilled(parsed.value), t),
          st |-> info(st, "API call successful on attempt " \o ToString(j.attempt),
                      "promises",
                      JsonObject(<<<<"url", Quote(RetryUrl)>>,
                                   <<"attempt", ToString(j.attempt)>>>>))]

\* the timer of the wait between attempts fired: attempt++ and the loop test
afterDelay(j, st, t) ==
    IF j.util = "retry" THEN retryLoop([j EXCEPT !.attempt = @ + 1], st, t)
    ELSE fetchRetryLoop([j EXCEPT !.attempt = @ + 1], st, t)

---------------------------------------------------------------------------
(* SpecRetry: one call of retry or of fetchWithRetry, fn and the network   *)
(* answering as they like, timers firing at their time or later.           *)

\* the ways fn() settles
FnOutcomes == {Fulfilled("Operation succeeded"), Rejected("Operation failed"),
               Rejected("Operation failed again")}

\* the ways fetch(url) settles
Responses == {Fulfilled([ok |-> TRUE, status |-> 200]),
              Fulfilled([ok |-> FALSE, status |-> 500]),
              Rejected("Failed to fetch")}

\* the ways response.json() settles
Parsed == {Fulfilled("data"), Rejected("Unexpected end of JSON input")}

InitRetry ==
    /\ logs = <<>>
    /\ count = 0
    /\ doc = InitialDocument({})
    /\ last = [op |-> "load"]
    /\ windowFns = ModuleLoadWindowFns
    /\ inflight = <<>>
    /\ bgPending = 0
    /\ clicks = 0
    /\ cache = NewCache(5, 5000)
    /\ now = 0
    /\ client = NotConstructed
    /\ calls = <<>>
    /\ timers = {}
    /\ account = NotConstructed
    /\ counters = NotConstructed
    /\ heap = <<>>
    /\ held = 0
    /\ job = NoJob

JobStep(r, op) ==
    /\ job' = r.job
    /\ Commit(r.st)
    /\ last' = [op |-> op]
    /\ UNCHANGED <<pageVars, cacheVars, clientVars, account, counterVars>>

CallRetry ==
    /\ job = NoJob
    /\ \E maxAttempts \in 0..MaxAttempts, delayMs \in 0..MaxDelayMs :
           JobStep(retry(maxAttempts, delayMs, LoggerState, now), "retry")

CallFetchWithRetry ==
    /\ job = NoJob
    /\ \E maxRetries \in 0..MaxAttempts, delay \in 0..MaxDelayMs :
           JobStep(fetchWithRetry(maxRetries, delay, LoggerState, now),
                   "fetchWithRetry")

JobAt(pc) == job.pc = pc

RetryFnFulfils ==
    /\ JobAt("fn")
    /\ \E outcome \in {o \in FnOutcomes : o.state = "fulfilled"} :
           JobStep(retryReturn(job, LoggerState, outcome.value, now), "fn fulfilled")

RetryFnRejects ==
    /\ JobAt("fn")
    /\ \E outcome \in {o \in FnOutcomes : o.state = "rejected"} :
           JobStep(retryCatch(job, LoggerState, outcome.reason, now), "fn rejected")

FetchResponds ==
    /\ JobAt("fetch")
    /\ \E response \in Responses :
           JobStep(fetchRetryResponse(job, LoggerState, response, now), "response")

JsonParsed ==
    /\ JobAt("json")
    /\ \E parsed \in Parsed :
           JobStep(fetchRetryData(job, LoggerState, parsed, now), "json")

DelayFires ==
    /\ JobAt("delay")
    /\ now >= job.due
    /\ JobStep(afterDelay(job, LoggerState, now), "delay")

JobTick ==
    /\ now < MaxClock
    /\ now' = now + 1
    /\ UNCHANGED <<loggerVars, last, pageVars, cache, exampleVars>>

NextRetry ==
    \/ CallRetry
    \/ CallFetchWithRetry
    \/ RetryFnFulfils
    \/ RetryFnRejects
    \/ FetchResponds
    \/ JsonParsed
    \/ DelayFires
    \/ JobTick

SpecRetry == InitRetry /\ [][NextRetry]_vars

---------------------------------------------------------------------------
(* Claims about retry and fetchWithRetry *)

Attempts == IF job = NoJob THEN <<>> ELSE job.runs

\* C17: retry invokes fn at most maxAttempts times, one invocation at a
\* time, never again after an invocation fulfilled, and waits delayMs
\* between a failed attempt and the next one but not after the last attempt;
\* fetchWithRetry issues at most maxRetries fetches and stops at the first
\* successful one.
C17_AttemptsBoundedAndSpaced ==
    IF job = NoJob THEN TRUE
    ELSE /\ Len(Attempts) <= job.maxAttempts
         /\ \A i \in 1..(Len(Attempts) - 1) :
                /\ Attempts[i].outcome.state = "rejected"
                /\ Attempts[i].settledAt >= Attempts[i].startedAt
                /\ Attempts[i + 1].startedAt >= Attempts[i].settledAt
                /\ job.util = "retry" =>
                       Attempts[i + 1].startedAt - Attempts[i].settledAt >= job.delayMs
         /\ IF Attempts = <<>> THEN TRUE
            ELSE LET lastRun == Attempts[Len(Attempts)]
                 IN  /\ lastRun.outcome.state = "fulfilled" => job.pc = "returned"
                     /\ (lastRun.outcome.state = "rejected"
                             /\ Len(Attempts) = job.maxAttempts) =>
                            /\ job.pc = "returned"
                            /\ job.settledAt = lastRun.settledAt

\* C17 witness: retry with a delay has used up its two attempts, the clock
\* moved between them, and it rejected when the second failed.
C17_Witness ==
    /\ JobAt("returned")
    /\ job.util = "retry"
    /\ job.delayMs > 0
    /\ job.maxAttempts = MaxAttempts
    /\ Len(job.runs) = job.maxAttempts
    /\ job.runs[Len(job.runs)].outcome.state = "rejected"
    /\ job.promise.state = "rejected"

\* C18: for every integer maxAttempts >= 0 the promise retry returns
\* fulfils only with the value of an fn() invocation that fulfilled, and
\* otherwise rejects with the error of the last failed attempt.
C18_SettlesAsAnAttemptDid ==
    IF job = NoJob THEN TRUE
    ELSE (job.util = "retry" /\ job.pc = "returned") =>
             IF \E i \in 1..Len(job.runs) : job.runs[i].outcome.state = "fulfilled"
             THEN \E i \in 1..Len(job.runs) : job.promise = job.runs[i].outcome
             ELSE /\ job.promise.state = "rejected"
                  /\ job.runs # <<>>
                  /\ job.promise = job.runs[Len(job.runs)].outcome

---------------------------------------------------------------------------
(* withTimeout and fetchWithTimeout.  job holds the promise raced (where   *)
(* fetchWithTimeout's fetchPromise stands, in stage), the timer of         *)
(* timeoutPromise and the promise Promise.race returned; as ghost fields   *)
(* the times of the settlements and the order they came in.                *)

\* timeoutMs ranges over 0..MaxTimeoutMs
MaxTimeoutMs == 2

\* the url of the example's fetchWithTimeout call
TimeoutUrl == "https://jsonplaceholder.typicode.com/posts/1"

\* the message of the Error the timer rejects timeoutPromise with
TimeoutMessage(util) ==
    IF util = "withTimeout" THEN "Operation timed out" ELSE "Request timed out"

\* variant: the promise of the race follows every settlement of its inputs
raceSettledAgain(j, st, outcome, t) ==
    [job |-> [j EXCEPT !.result = outcome, !.resultAt = t, !.pc = "returned"],
     st |-> st]

\* one of the promises given to Promise.race settled at time t: the promise
\* of the race settles with it unless it is settled already; in
\* fetchWithTimeout the await returns or throws and the function logs
raceSettled(j, st, outcome, t) ==
    IF j.result.state # "pending" THEN [job |-> j, st |-> st]
    ELSE [job |-> [j EXCEPT !.result = outcome, !.resultAt = t, !.pc = "returned"],
          st |-> IF j.util = "withTimeout" THEN st
                 ELSE IF outcome.state = "fulfilled"
                      THEN info(st, "API call completed within timeout", "promises",
                                JsonObject(<<<<"url", Quote(TimeoutUrl)>>>>))
                      ELSE error(st, "API call failed or timed out", "promises",
                                 JsonObject(<<<<"url", Quote(TimeoutUrl)>>,
                                              <<"error", Quote(outcome.reason)>>>>))]

\* the calls, up to Promise.race: the timer is set for t + timeoutMs
Racing(util, promise, stage, timeoutMs, t) ==
    [util |-> util, timeoutMs |-> timeoutMs, calledAt |-> t, pc |-> "racing",
     promise |-> promise, stage |-> stage,
     promiseAt |-> IF promise.state = "pending" THEN -1 ELSE t,
     early |-> promise.state # "pending",
     timer |-> "set", due |-> t + timeoutMs, timerAt |-> -1,
     result |-> Pending, resultAt |-> -1,
     order |-> IF promise.state = "pending" THEN <<>> ELSE <<"promise">>]

\* withTimeout(promise, timeoutMs) called at time t; a promise that is
\* settled already settles the race before any timer runs
withTimeout(promise, timeoutMs, st, t) ==
    LET j == Racing("withTimeout", promise,
                    IF promise.state = "pending" THEN "promise" ELSE "settled",
                    timeoutMs, t)
    IN  IF promise.state = "pending" THEN [job |-> j, st |-> st]
        ELSE raceSettled(j, st, promise, t)

\* fetchWithTimeout(url, timeoutMs) called at time t
fetchWithTimeout(timeoutMs, st, t) ==
    [job |-> Racing("fetchWithTimeout", Pending, "fetch", timeoutMs, t),
     st |-> info(st, "Making API call with timeout", "promises",
                 JsonObject(<<<<"url", Quote(TimeoutUrl)>>,
                              <<"timeoutMs", ToString(timeoutMs)>>>>))]

\* the promise raced against the timer settled at time t
promiseSettled(j, st, outcome, t) ==
    raceSettled([j EXCEPT !.promise = outcome, !.promiseAt = t, !.stage = "settled",
                          !.order = Append(@, "promise")], st, outcome, t)

\* fetchWithTimeout: fetch(url) settled, the callback given to then
fetchTimeoutResponse(j, st, response, t) ==
    IF response.state = "rejected" THEN promiseSettled(j, st, response, t)
    ELSE IF ~response.value.ok
         THEN promiseSettled(j, st, Rejected("HTTP error! status: "
                                            \o ToString(response.value.status)), t)
         ELSE [job |-> [j EXCEPT !.stage = "json"], st |-> st]

\* the callback setTimeout was given runs at time t
timerFired(j, st, t) ==
    raceSettled([j EXCEPT !.timer = "fired", !.timerAt = t,
                          !.order = Append(@, "timer")],
                st, Rejected(TimeoutMessage(j.util)), t)

---------------------------------------------------------------------------
(* SpecTimeout: one call of withTimeout or of fetchWithTimeout *)

InitTimeout == InitRetry

RaceAt(stage) == job.pc # "idle" /\ job.stage = stage

CallWithTimeout ==
    /\ job = NoJob
    /\ \E timeoutMs \in 0..MaxTimeoutMs, promise \in {Pending} \cup FnOutcomes :
           JobStep(withTimeout(promise, timeoutMs, LoggerState, now), "withTimeout")

CallFetchWithTimeout ==
    /\ job = NoJob
    /\ \E timeoutMs \in 0..MaxTimeoutMs :
           JobStep(fetchWithTimeout(timeoutMs, LoggerState, now), "fetchWithTimeout")

PromiseSettles ==
    /\ RaceAt("promise")
    /\ \E outcome \in FnOutcomes :
           JobStep(promiseSettled(job, LoggerState, outcome, now), "promise")

TimeoutFetchResponds ==
    /\ RaceAt("fetch")
    /\ \E response \in Responses :
           JobStep(fetchTimeoutResponse(job, LoggerState, response, now), "promise")

TimeoutJsonParsed ==
    /\ RaceAt("json")
    /\ \E parsed \in Parsed :
           JobStep(promiseSettled(job, LoggerState, parsed, now), "promise")

TimerFires ==
    /\ job.pc # "idle"
    /\ job.timer = "set"
    /\ now >= job.due
    /\ JobStep(timerFired(job, LoggerState, now), "timer")

NextTimeout ==
    \/ CallWithTimeout
    \/ CallFetchWithTimeout
    \/ PromiseSettles
    \/ TimeoutFetchResponds
    \/ TimeoutJsonParsed
    \/ TimerFires
    \/ JobTick

SpecTimeout == InitTimeout /\ [][NextTimeout]_vars

---------------------------------------------------------------------------
(* Claims about withTimeout and fetchWithTimeout *)

TimedOut(j) == Rejected(TimeoutMessage(j.util))

\* the promise raced settled before timeoutMs had elapsed since the call
\* (or was settled when the call was made)
SettledWithinTimeout(j) ==
    /\ j.promiseAt # -1
    /\ j.early \/ j.promiseAt - j.calledAt < j.timeoutMs

\* the promise of the race does not change once it is settled
SettlesOnce ==
    IF job.pc = "idle" THEN TRUE
    ELSE job.result.state # "pending" => job'.result = job.result

\* C19 as stated: the result is the promise's outcome if the promise settles
\* before timeoutMs elapses, otherwise the timeout rejection; it settles
\* once, and no later settlement or firing of the timer changes it.
C19_PromiseWinsOnlyWithinTimeout ==
    [][/\ SettlesOnce
       /\ IF job'.pc = "idle" THEN TRUE
          ELSE job'.result.state # "pending" =>
                   job'.result = IF SettledWithinTimeout(job') THEN job'.promise
                                 ELSE TimedOut(job')]_vars

\* C19, amended: the result settles as whichever of the promise and the
\* timer callback comes first; the callback runs at timeoutMs after the call
\* or later, so a promise settling before timeoutMs elapses always wins, and
\* one settling later wins when the callback is later still; the result
\* settles once, and no later settlement or firing of the timer changes it.
C19_FirstSettlementWins ==
    [][/\ SettlesOnce
       /\ IF job'.pc = "idle" THEN TRUE
          ELSE /\ (job'.result.state # "pending") = (job'.order # <<>>)
               /\ job'.order # <<>> =>
                      job'.result = IF job'.order[1] = "promise" THEN job'.promise
                                    ELSE TimedOut(job')
               /\ job'.timerAt # -1 => job'.timerAt - job'.calledAt >= job'.timeoutMs
               /\ SettledWithinTimeout(job') => job'.result = job'.promise]_vars

\* C19 witness: the timer callback ran first and rejected the result, the
\* promise fulfilled afterwards, and the result is still the rejection.
C19_Witness ==
    /\ job.pc = "returned"
    /\ job.order = <<"timer", "promise">>
    /\ job.promise.state = "fulfilled"
    /\ job.result = TimedOut(job)
    /\ job.resultAt < job.promiseAt

=============================================================================
